---- MODULE Spec2Model ----
(***************************************************************************)
(* Model of the Spending Tracker dashboard (spending_tracker_secure.py and *)
(* pages/credit_card_history.py): the credit-card history page with its    *)
(* metrics, its rolling 24-month count and "5/24 < 5 by" projection, the   *)
(* asset tracker page with its allocation, growth series and growth        *)
(* statistics, and the spending page with its sums by category.            *)
(*                                                                         *)
(* One script run renders one page.  A run loads its frame afresh, walks   *)
(* through the page's blocks in source order and ends; the next run starts *)
(* from the idle state again.                                              *)
(***************************************************************************)
EXTENDS Integers, Sequences, FiniteSets

(***************************************************************************)
(* Bounds of the model                                                     *)
(***************************************************************************)
\* longest credit-card frame that is loaded
MaxRecords == 6
\* longest asset frame that is loaded
MaxAssetRows == 3
\* longest spending frame that is loaded
MaxSpendingRows == 4

(***************************************************************************)
(* Program constants                                                       *)
(***************************************************************************)
\* a mutant of HorizonMonths: range(1, 26)
HorizonOneMore == 24 + 1
\* range(1, 25): the candidates are months_ahead = 1 .. 24
HorizonMonths == 24
\* 0 <= months_diff < 24
WindowMonths == 24
\* cards_in_24_months < 5
Threshold == 5
\* nlargest(3)
TopCategories == 3

(***************************************************************************)
(* Values                                                                  *)
(***************************************************************************)
Date(y, m, d) == [year |-> y, month |-> m, day |-> d]

\* pandas' missing date (NaT); pd.notna is FALSE exactly for it.  It is kept
\* in the shape of a date so that it can sit in a date column.
NaT == Date(0, 0, 0)
\* Python's None in a variable that later holds a date
None == Date(-1, 0, 0)

\* what st.metric("5/24 < 5 by", ...) is given
MetricText(s) == [text |-> s, year |-> 0, month |-> 0]
\* no st.metric call yet
NoMetric == MetricText("")

\* pd.notna(row['Opening Date'])
notna(x) == x # NaT

IsLeap(y) == (y % 4 = 0) /\ ((y % 100 # 0) \/ (y % 400 = 0))

DaysInMonth(y, m) ==
    IF m = 2 THEN (IF IsLeap(y) THEN 29 ELSE 28)
    ELSE IF m \in {4, 6, 9, 11} THEN 30 ELSE 31

Min2(a, b) == IF a <= b THEN a ELSE b

\* a mutant of DateOffset: k months taken as k * 30 days from the first of
\* the month the date lies in, walking month by month
RECURSIVE WalkDays(_, _, _, _)
WalkDays(y, m, d, n) ==
    IF n = 0 THEN Date(y, m, d)
    ELSE LET left == DaysInMonth(y, m) - d
         IN  IF n <= left THEN Date(y, m, d + n)
             ELSE IF m = 12 THEN WalkDays(y + 1, 1, 1, n - left - 1)
                  ELSE WalkDays(y, m + 1, 1, n - left - 1)

DateOffsetByDays(d, k) == WalkDays(d.year, d.month, d.day, 30 * k)

\* current_date + pd.DateOffset(months=k): the month is advanced by k
\* calendar months and the day is clipped to the length of the target month
DateOffset(d, k) ==
    LET t == (d.month - 1) + k
        y == d.year + (t \div 12)
        m == (t % 12) + 1
    IN  Date(y, m, Min2(d.day, DaysInMonth(y, m)))

\* a mutant of months_diff: the year term is dropped
months_diff_no_year(check, opening) == check.month - opening.month

\* months_diff = (check_date.year - row.year) * 12 + (check_date.month - row.month)
months_diff(check, opening) ==
    (check.year - opening.year) * 12 + (check.month - opening.month)

\* a mutant of in_window: both ends of the window included
in_window_closed(md) == 0 <= md /\ md <= WindowMonths

\* a mutant of in_window: the window one month too short
in_window_short(md) == 0 <= md /\ md < WindowMonths - 1

\* a mutant of in_window: the window shifted by one month (the reference
\* month left out, the month WindowMonths back taken in)
in_window_shifted(md) == 0 < md /\ md <= WindowMonths

\* a mutant of in_window: no upper end, a card once opened counts for ever
in_window_unbounded(md) == 0 <= md

\* if 0 <= months_diff < 24
in_window(md) == 0 <= md /\ md < WindowMonths

\* a mutant of count_row: the null test is missing and a null date counts
count_row_no_null_test(row, check) ==
    IF notna(row.opening)
    THEN (IF in_window(months_diff(check, row.opening)) THEN 1 ELSE 0)
    ELSE 1

\* the body of the loop over the rows: what one row adds to cards_in_24_months
count_row(row, check) ==
    IF notna(row.opening)
    THEN (IF in_window(months_diff(check, row.opening)) THEN 1 ELSE 0)
    ELSE 0

\* for _, row in df.iterrows(): ... cards_in_24_months += 1
RECURSIVE count_cards(_, _)
count_cards(rows, check) ==
    IF rows = << >> THEN 0
    ELSE count_row(Head(rows), check) + count_cards(Tail(rows), check)

\* a mutant of below_threshold: a count of exactly 5 qualifies too
below_or_at_threshold(n) == n <= Threshold

\* if cards_in_24_months < 5
below_threshold(n) == n < Threshold

\* target_month.strftime('%Y-%m'): the year and the month, the day is lost
strftime_Ym(d) == [text |-> "%Y-%m", year |-> d.year, month |-> d.month]

\* a mutant of metric_for: an exhausted search is shown like a missing column
metric_for_not_available(target) ==
    IF target # None THEN strftime_Ym(target) ELSE MetricText("N/A")

\* if target_month: st.metric("5/24 < 5 by", target_month.strftime('%Y-%m'))
\* else: st.metric("5/24 < 5 by", "Beyond 24 months")
metric_for(target) ==
    IF target # None THEN strftime_Ym(target) ELSE MetricText("Beyond 24 months")

\* what the other metrics of the credit-card page are given: a number, or
\* "N/A"
MetricValue(n) == [text |-> "number", n |-> n]

MetricNA == [text |-> "N/A", n |-> 0]
\* no st.metric call yet
MetricNotShown == [text |-> "", n |-> 0]

\* open_cards = df[df['Closing Date'].isna()]
open_cards_of(rows) == SelectSeq(rows, LAMBDA r : ~notna(r.closing))

\* last_record = df.iloc[-1];
\* five_twenty_four_count = last_record['Number of Cards Opened 24 months prior']
five_twenty_four_count(rows) == rows[Len(rows)].cards_24

\* months_open: for every open card with an opening date, the months between
\* its opening month and the current month
RECURSIVE months_open(_, _)
months_open(cards, now) ==
    IF cards = << >> THEN << >>
    ELSE (IF notna(Head(cards).opening)
          THEN << months_diff(now, Head(cards).opening) >>
          ELSE << >>) \o months_open(Tail(cards), now)

RECURSIVE sum(_)
sum(numbers) == IF numbers = << >> THEN 0 ELSE Head(numbers) + sum(Tail(numbers))

\* f"{p / q:.1f}" for q > 0, as a number of tenths: the nearest tenth, a tie
\* (which is exact in binary: a quarter or three quarters) going to the even
\* digit
format_1f(p, q) ==
    LET whole == (10 * p) \div q
        rest == (10 * p) % q
    IN  IF 2 * rest < q THEN whole
        ELSE IF 2 * rest > q THEN whole + 1
        ELSE IF whole % 2 = 0 THEN whole ELSE whole + 1

\* the metric of col4: avg_months = sum(months_open) / len(months_open)
average_months_open(cards, now) ==
    LET months == months_open(cards, now)
    IN  IF months # << >>
        THEN MetricValue(format_1f(sum(months), Len(months)))
        ELSE MetricNA

(***************************************************************************)
(* Numbers of the asset page.  A float is modelled as an exact fraction,   *)
(* or as one of the three IEEE specials a division can produce.            *)
(***************************************************************************)
Abs(a) == IF a < 0 THEN -a ELSE a

RECURSIVE Gcd(_, _)
Gcd(a, b) == IF b = 0 THEN a ELSE Gcd(b, a % b)

\* the fraction a / b (b # 0) in lowest terms with a positive denominator
Num(a, b) ==
    LET g == Gcd(Abs(a), Abs(b))
        s == IF b < 0 THEN -1 ELSE 1
    IN  [kind |-> "num", num |-> (s * a) \div g, den |-> (s * b) \div g]

NaN == [kind |-> "nan", num |-> 0, den |-> 1]
PosInf == [kind |-> "inf", num |-> 1, den |-> 1]
NegInf == [kind |-> "-inf", num |-> -1, den |-> 1]

\* an integer as a float
Float(n) == Num(n, 1)

\* x + y on floats: NaN is contagious, an infinity absorbs every finite
\* value, and the two infinities add up to NaN
FAdd(x, y) ==
    IF x.kind = "nan" \/ y.kind = "nan" THEN NaN
    ELSE IF x.kind = "num" /\ y.kind = "num"
         THEN Num(x.num * y.den + y.num * x.den, x.den * y.den)
         ELSE IF x.kind = "num" THEN y
              ELSE IF y.kind = "num" \/ y.kind = x.kind THEN x
                   ELSE NaN

\* x / y on floats (y finite and not negative, or NaN): a finite value
\* over zero is an infinity of its sign, zero over zero is NaN, and an
\* infinity stays what it is
FDiv(x, y) ==
    IF x.kind = "nan" \/ y.kind = "nan" THEN NaN
    ELSE IF x.kind # "num" THEN x
    ELSE IF y.num = 0
         THEN (IF x.num > 0 THEN PosInf ELSE IF x.num < 0 THEN NegInf ELSE NaN)
         ELSE Num(x.num * y.den, x.den * y.num)

\* x < y on floats that are not NaN
FLess(x, y) ==
    IF x.kind = "num" /\ y.kind = "num" THEN x.num * y.den < y.num * x.den
    ELSE IF x.kind = y.kind THEN FALSE
    ELSE x.kind = "-inf" \/ y.kind = "inf"

\* x - c for an integer c
FSubInt(x, c) ==
    IF x.kind = "num" THEN Num(x.num - c * x.den, x.den) ELSE x

\* x * c for an integer c > 0
FMulInt(x, c) ==
    IF x.kind = "num" THEN Num(x.num * c, x.den) ELSE x

\* a cell of the Value column as read from the sheet: a number or a text
NumberCell(n) == [kind |-> "number", n |-> n]
TextCell == [kind |-> "text", n |-> 0]

\* pd.to_numeric(df['Value'], errors='coerce'): what is not a number is NaN
to_numeric(cell) == IF cell.kind = "number" THEN Float(cell.n) ELSE NaN

\* the order of two dates
DateLess(a, b) ==
    \/ a.year < b.year
    \/ a.year = b.year /\ a.month < b.month
    \/ a.year = b.year /\ a.month = b.month /\ a.day < b.day

RECURSIVE SortDates(_)
SortDates(S) ==
    IF S = {} THEN << >>
    ELSE LET m == CHOOSE x \in S : \A y \in S : y = x \/ DateLess(x, y)
         IN  << m >> \o SortDates(S \ {m})

\* a mutant of GroupKeys: the periods in the order of their first appearance
\* (groupby(..., sort=False))
GroupKeysUnsorted(rows) ==
    LET RECURSIVE KeysInOrder(_, _)
        KeysInOrder(rest, seen) ==
            IF rest = << >> THEN << >>
            ELSE LET k == Head(rest).YearMonth
                 IN  IF k = NaT \/ k \in seen
                     THEN KeysInOrder(Tail(rest), seen)
                     ELSE << k >> \o KeysInOrder(Tail(rest), seen \cup {k})
    IN  KeysInOrder(rows, {})

\* the group keys of groupby('YearMonth'): the distinct non-null periods in
\* ascending order
GroupKeys(rows) ==
    SortDates({ rows[i].YearMonth : i \in 1..Len(rows) } \ {NaT})

\* ['Value'].sum() of one group: NaN values are skipped, a group without a
\* number sums to 0
RECURSIVE GroupSum(_, _)
GroupSum(rows, key) ==
    IF rows = << >> THEN Float(0)
    ELSE LET r == Head(rows)
             rest == GroupSum(Tail(rows), key)
         IN  IF r.YearMonth = key /\ r.Value.kind # "nan"
             THEN FAdd(r.Value, rest)
             ELSE rest

\* df.groupby('YearMonth')['Value'].sum().reset_index()
groupby_sum(rows) ==
    LET keys == GroupKeys(rows)
    IN  [i \in 1..Len(keys) |->
            [YearMonth |-> keys[i], Value |-> GroupSum(rows, keys[i])]]

\* Series.shift(1): every value moves one place down, the first place is NaN
shift(values) ==
    [i \in 1..Len(values) |-> IF i = 1 THEN NaN ELSE values[i - 1]]

\* a mutant of pct_change: the change is taken relative to the new value
pct_change_of_new(values) ==
    LET prev == shift(values)
    IN  [i \in 1..Len(values) |-> FSubInt(FDiv(prev[i], values[i]), 1)]

\* Series.pct_change(): values / values.shift(1) - 1
pct_change(values) ==
    LET prev == shift(values)
    IN  [i \in 1..Len(values) |-> FSubInt(FDiv(values[i], prev[i]), 1)]

\* portfolio_timeline['Growth_Rate'] = portfolio_timeline['Value'].pct_change() * 100
with_growth_rate(timeline) ==
    LET rates == pct_change([i \in 1..Len(timeline) |-> timeline[i].Value])
    IN  [i \in 1..Len(timeline) |->
            [YearMonth |-> timeline[i].YearMonth,
             Value |-> timeline[i].Value,
             Growth_Rate |-> FMulInt(rates[i], 100)]]

(***************************************************************************)
(* Text columns, grouping by a key and the statistics of a series          *)
(***************************************************************************)
\* a missing cell of a text column (NaN in an object column)
NullKey == "NaN"

\* the keys of the text columns, in the order sorted() and groupby put them
KeysAscending == << "A", "B", "C", "D" >>

\* df[df['YearMonth'] == month]
SelectMonth(rows, month) == SelectSeq(rows, LAMBDA r : r.YearMonth = month)

\* df[df[col] == key]: a missing cell is equal to nothing, not even to itself
SelectKey(rows, col, key) ==
    IF key = NullKey THEN << >> ELSE SelectSeq(rows, LAMBDA r : r[col] = key)

\* a mutant of SumColumn: sum(skipna=False), one NaN makes the sum NaN
RECURSIVE SumColumnKeepNaN(_, _)
SumColumnKeepNaN(rows, col) ==
    IF rows = << >> THEN Float(0)
    ELSE FAdd(Head(rows)[col], SumColumnKeepNaN(Tail(rows), col))

\* Series.sum(): NaN values are skipped, a column without a number sums to 0
RECURSIVE SumColumn(_, _)
SumColumn(rows, col) ==
    IF rows = << >> THEN Float(0)
    ELSE LET v == Head(rows)[col]
             rest == SumColumn(Tail(rows), col)
         IN  IF v.kind = "nan" THEN rest ELSE FAdd(v, rest)

\* the group keys of groupby(col): the distinct values of the column in
\* ascending order; rows with a missing key belong to no group (dropna=True)
GroupKeysOf(rows, col) ==
    SelectSeq(KeysAscending, LAMBDA k : \E i \in 1..Len(rows) : rows[i][col] = k)

\* df.groupby(col)[val].sum()
groupby_key_sum(rows, col, val) ==
    LET keys == GroupKeysOf(rows, col)
    IN  [i \in 1..Len(keys) |->
            [key |-> keys[i], Value |-> SumColumn(SelectKey(rows, col, keys[i]), val)]]

\* df['YearMonth'].max()
max_month(rows) ==
    LET months == { rows[i].YearMonth : i \in 1..Len(rows) } \ {NaT}
    IN  CHOOSE m \in months : \A n \in months : n = m \/ DateLess(n, m)

\* Series.unique(): the distinct values in the order of their first
\* appearance, a missing value among them
RECURSIVE unique_from(_, _, _)
unique_from(rows, col, seen) ==
    IF rows = << >> THEN << >>
    ELSE LET k == Head(rows)[col]
         IN  IF k \in seen THEN unique_from(Tail(rows), col, seen)
             ELSE << k >> \o unique_from(Tail(rows), col, seen \cup {k})

unique(rows, col) == unique_from(rows, col, {})

\* sorted(df[col].unique().tolist()) raises TypeError when it has to compare
\* a missing value (a float) with a text
sorted_raises(rows, col) ==
    LET keys == { rows[i][col] : i \in 1..Len(rows) }
    IN  NullKey \in keys /\ keys # {NullKey}

\* filtered_df[filtered_df['카테고리'] == selected_category], with 'All' for
\* no filter
filter_category(rows, selected) ==
    IF selected = "All" THEN rows ELSE SelectKey(rows, "Category", selected)

\* Series.sort_values(ascending=False) of a series of sums: the largest
\* first, equal sums in the order they had
RECURSIVE sort_values_descending(_)
sort_values_descending(series) ==
    IF series = << >> THEN << >>
    ELSE LET i == CHOOSE i \in 1..Len(series) :
                     /\ \A j \in 1..Len(series) : ~FLess(series[i].Value, series[j].Value)
                     /\ \A j \in 1..(i - 1) : series[j].Value # series[i].Value
         IN  << series[i] >>
             \o sort_values_descending(SubSeq(series, 1, i - 1)
                                         \o SubSeq(series, i + 1, Len(series)))

\* a mutant of nlargest: nlargest(n, keep='last'), among equal sums the one
\* that comes last in the series is taken first
nlargest_keep_last(series, n) ==
    LET RECURSIVE pick(_)
        pick(rest) ==
            IF rest = << >> THEN << >>
            ELSE LET i == CHOOSE i \in 1..Len(rest) :
                             /\ \A j \in 1..Len(rest) : ~FLess(rest[i].Value, rest[j].Value)
                             /\ \A j \in (i + 1)..Len(rest) : rest[j].Value # rest[i].Value
                 IN  << rest[i] >>
                     \o pick(SubSeq(rest, 1, i - 1) \o SubSeq(rest, i + 1, Len(rest)))
        sorted == pick(series)
    IN  SubSeq(sorted, 1, Min2(n, Len(sorted)))

\* Series.nlargest(n): the n largest sums, the largest first; among equal
\* sums the one that comes first in the series is taken first (keep='first')
nlargest(series, n) ==
    LET sorted == sort_values_descending(series)
    IN  SubSeq(sorted, 1, Min2(n, Len(sorted)))

\* filtered_df['금액'].idxmax() has no row to name when no amount is a
\* number, and the lookup of the row raises
idxmax_raises(rows) == \A i \in 1..Len(rows) : rows[i].Amount.kind = "nan"

\* the values of a series that are not NaN
NotNaN(values) == SelectSeq(values, LAMBDA v : v.kind # "nan")

RECURSIVE FSum(_)
FSum(values) ==
    IF values = << >> THEN Float(0) ELSE FAdd(Head(values), FSum(Tail(values)))

\* Series.mean(): the mean of the values that are not NaN, NaN if there is none
series_mean(values) ==
    LET xs == NotNaN(values)
    IN  IF xs = << >> THEN NaN ELSE FDiv(FSum(xs), Float(Len(xs)))

\* Series.max(): the largest of the values that are not NaN
series_max(values) ==
    LET xs == NotNaN(values)
    IN  IF xs = << >> THEN NaN
        ELSE LET i == CHOOSE i \in 1..Len(xs) : \A j \in 1..Len(xs) : ~FLess(xs[i], xs[j])
             IN  xs[i]

\* Series.min(): the smallest of the values that are not NaN
series_min(values) ==
    LET xs == NotNaN(values)
    IN  IF xs = << >> THEN NaN
        ELSE LET i == CHOOSE i \in 1..Len(xs) : \A j \in 1..Len(xs) : ~FLess(xs[j], xs[i])
             IN  xs[i]

\* a mutant of total_growth: the growth of the last step only
total_growth_last_step(values) ==
    FMulInt(FSubInt(FDiv(values[Len(values)], values[Len(values) - 1]), 1), 100)

\* ((values.iloc[-1] / values.iloc[0]) - 1) * 100
total_growth(values) ==
    FMulInt(FSubInt(FDiv(values[Len(values)], values[1]), 1), 100)

\* the column of a frame as a series
Column(rows, col) == [i \in 1..Len(rows) |-> rows[i][col]]

\* no growth statistics table
NoStats ==
    [computed |-> FALSE, total_growth |-> NaN, avg_monthly_growth |-> NaN,
     max_growth |-> NaN, max_loss |-> NaN]

\* if len(portfolio_timeline) > 1: total_growth, avg_monthly_growth,
\* max_growth, max_loss
growth_stats_of(timeline) ==
    IF Len(timeline) > 1
    THEN [computed |-> TRUE,
          total_growth |-> total_growth(Column(timeline, "Value")),
          avg_monthly_growth |-> series_mean(Column(timeline, "Growth_Rate")),
          max_growth |-> series_max(Column(timeline, "Growth_Rate")),
          max_loss |-> series_min(Column(timeline, "Growth_Rate"))]
    ELSE NoStats

\* for account in df['Account'].unique(): the period totals of the account
\* and, if len(account_data) > 1, its entry in account_growth
account_growth_of(rows) ==
    LET accounts == unique(rows, "Account")
        entry(a) ==
            LET data == groupby_sum(SelectKey(rows, "Account", a))
                n == Len(data)
            IN  [Account |-> a,
                 periods |-> n,
                 growth |-> IF n > 1 THEN total_growth(Column(data, "Value")) ELSE NaN,
                 current |-> IF n > 1 THEN data[n].Value ELSE NaN,
                 starting |-> IF n > 1 THEN data[1].Value ELSE NaN]
    IN  SelectSeq([i \in 1..Len(accounts) |-> entry(accounts[i])],
                  LAMBDA e : e.periods > 1)

(***************************************************************************)
(* Inputs                                                                  *)
(***************************************************************************)
\* the values datetime.now() takes in the model
Nows == { Date(2024, 1, 31), Date(2023, 12, 15) }

\* the opening dates a loaded row may carry
OpeningDates == { NaT, Date(2022, 3, 20), Date(2024, 1, 5), Date(2024, 4, 10) }

\* a row of the sheet: 'Opening Date', 'Closing Date' and 'Number of Cards
\* Opened 24 months prior'
CardRow(o, c, n) == [opening |-> o, closing |-> c, cards_24 |-> n]

\* the rows a loaded credit-card sheet may carry: one for each opening
\* date; the card of 2022 is closed, the others are open
CardRows ==
    { CardRow(NaT, NaT, 0),
      CardRow(Date(2022, 3, 20), Date(2023, 6, 30), 1),
      CardRow(Date(2024, 1, 5), NaT, 2),
      CardRow(Date(2024, 4, 10), NaT, 3) }

RECURSIVE SeqsUpTo(_, _)
SeqsUpTo(S, n) ==
    IF n = 0 THEN { << >> }
    ELSE LET shorter == SeqsUpTo(S, n - 1)
         IN  shorter \cup { Append(s, x) : s \in { t \in shorter : Len(t) = n - 1 }, x \in S }

CardFrames == SeqsUpTo(CardRows, MaxRecords)

\* the periods and the Value cells a loaded asset row may carry
YearMonths == { Date(2024, 1, 1), Date(2024, 2, 1), Date(2024, 3, 1) }

ValueCells == { NumberCell(0), NumberCell(99), NumberCell(100), NumberCell(110),
                TextCell }

AssetRow(m, v, a) == [YearMonth |-> m, Value |-> v, Account |-> a]

\* the rows a loaded asset sheet may carry: every period and Value cell for
\* account A, two rows of account B and a row without an account
AssetRows ==
    { AssetRow(m, v, "A") : m \in YearMonths, v \in ValueCells }
    \cup { AssetRow(Date(2024, 2, 1), NumberCell(100), "B"),
           AssetRow(Date(2024, 3, 1), NumberCell(110), "B"),
           AssetRow(Date(2024, 3, 1), NumberCell(100), NullKey) }

\* the dtype of a date column as read from the sheet
DateDtypes == { "datetime64", "object" }

AssetFrames == SeqsUpTo(AssetRows, MaxAssetRows)

\* a row of the spending sheet: '카테고리' and '금액'
SpendingRow(c, a) == [Category |-> c, Amount |-> a]

\* the rows a loaded spending sheet may carry; one has no category, one
\* has no amount
SpendingRows ==
    { SpendingRow("A", Float(50)), SpendingRow("B", Float(50)),
      SpendingRow("C", Float(10)), SpendingRow("D", Float(10)),
      SpendingRow("D", Float(50)), SpendingRow(NullKey, Float(10)),
      SpendingRow("B", NaN) }

SpendingFrames == SeqsUpTo(SpendingRows, MaxSpendingRows)

(***************************************************************************)
(* The login gate of spending_tracker_secure.py                            *)
(*                                                                         *)
(* The environment is read with os.getenv: a variable that is not set      *)
(* reads as None, a variable set to nothing reads as the empty string.     *)
(* env.username[1] and env.password[1] are ST_USERNAME and ST_PASSWORD,    *)
(* env.username[i] and env.password[i] are ST_USERNAME_i and ST_PASSWORD_i *)
(* for i >= 2; every index past the end of the table is not set.           *)
(***************************************************************************)

\* what os.getenv returns for a variable that is not set (None)
EnvNone == [set |-> FALSE, text |-> ""]

\* what os.getenv returns for a variable set to the text s
EnvStr(s) == [set |-> TRUE, text |-> s]

\* the truth value Python gives a value read from the environment: None
\* and the empty string are both false
truthy(v) == v.set /\ v.text # ""

\* os.getenv("ST_USERNAME") and os.getenv(f"ST_USERNAME_{i}")
getenv_username(e, i) ==
    IF i \in DOMAIN e.username THEN e.username[i] ELSE EnvNone

\* os.getenv("ST_PASSWORD") and os.getenv(f"ST_PASSWORD_{i}")
getenv_password(e, i) ==
    IF i \in DOMAIN e.password THEN e.password[i] ELSE EnvNone

\* hashlib.sha256(password.encode()).hexdigest(): two passwords have the
\* same digest only if they are the same text
hash_password(password) == [sha256 |-> password]

\* the while loop of get_available_usernames: the names from index i on,
\* up to the first index whose username is missing or empty
RECURSIVE more_usernames(_, _)
more_usernames(e, i) ==
    IF truthy(getenv_username(e, i))
        THEN << getenv_username(e, i).text >> \o more_usernames(e, i + 1)
        ELSE << >>

get_available_usernames(e) ==
    (IF truthy(getenv_username(e, 1)) THEN << getenv_username(e, 1).text >>
                                      ELSE << >>)
        \o more_usernames(e, 2)

additional_users_skip_gaps(e, i) ==
    SelectSeq([k \in 1..(Len(e.username) - i + 1) |->
                  [username |-> getenv_username(e, i + k - 1).text,
                   password |-> getenv_password(e, i + k - 1).text]],
              LAMBDA pair : pair.username # "" /\ pair.password # "")

\* the while loop of check_credentials: the additional users from index i
\* on, up to the first index where the username or the password is missing
\* or empty
RECURSIVE additional_users(_, _)
additional_users(e, i) ==
    IF truthy(getenv_username(e, i)) /\ truthy(getenv_password(e, i))
        THEN << [username |-> getenv_username(e, i).text,
                 password |-> getenv_password(e, i).text] >>
                 \o additional_users(e, i + 1)
        ELSE << >>

check_credentials_any_password(e, username, password) ==
    LET env_username == getenv_username(e, 1)
        env_password == getenv_password(e, 1)
        users == additional_users(e, 2)
    IN  IF ~truthy(env_username) \/ ~truthy(env_password)
            THEN FALSE
            ELSE \/ username = env_username.text
                 \/ \E i \in 1..Len(users) : username = users[i].username

check_credentials(e, username, password) ==
    LET env_username == getenv_username(e, 1)
        env_password == getenv_password(e, 1)
        users == additional_users(e, 2)
    IN  IF ~truthy(env_username) \/ ~truthy(env_password)
            THEN FALSE
            ELSE \/ /\ username = env_username.text
                    /\ hash_password(password) = hash_password(env_password.text)
                 \/ \E i \in 1..Len(users) :
                        /\ username = users[i].username
                        /\ hash_password(password)
                               = hash_password(users[i].password)

LockoutShort == 300 - 1

\* login_page: the seconds a locked session waits
LockoutSeconds == 300

AttemptsOneMore == 3 + 1

\* login_page: the failed attempts that lock the session
MaxAttempts == 3

rate_limit_never_expires(attempts, last, now) ==
    IF attempts >= MaxAttempts
        THEN [locked |-> TRUE, login_attempts |-> attempts]
        ELSE [locked |-> FALSE, login_attempts |-> attempts]

\* login_page, the rate limiting block: whether the run stops at the
\* "too many failed attempts" message, and the attempts counter it leaves
rate_limit(attempts, last, now) ==
    IF attempts >= MaxAttempts
        THEN IF now - last < LockoutSeconds
                 THEN [locked |-> TRUE, login_attempts |-> attempts]
                 ELSE [locked |-> FALSE, login_attempts |-> 0]
        ELSE [locked |-> FALSE, login_attempts |-> attempts]

\* the environments the program is started in
Environments ==
    { [username |-> << >>, password |-> << >>],
      [username |-> << EnvStr("alice") >>, password |-> << EnvStr("pw1") >>],
      [username |-> << EnvStr("alice"), EnvStr("bob") >>, password |-> << EnvStr("pw1"), EnvStr("pw2") >>],
      [username |-> << EnvNone, EnvStr("bob") >>, password |-> << EnvNone, EnvStr("pw2") >>],
      [username |-> << EnvStr("alice"), EnvStr("bob") >>, password |-> << EnvNone, EnvStr("pw2") >>],
      [username |-> << EnvStr("alice"), EnvNone, EnvStr("carol") >>,
       password |-> << EnvStr("pw1"), EnvStr("pw2"), EnvStr("pw3") >>],
      [username |-> << EnvStr(""), EnvStr("bob") >>, password |-> << EnvStr("pw1"), EnvStr("pw2") >>],
      [username |-> << EnvStr("alice"), EnvStr("bob"), EnvStr("carol") >>,
       password |-> << EnvStr("pw1"), EnvStr(""), EnvStr("pw3") >>] }

\* what a visitor types into the two fields of the login form
TypedUsernames == {"alice", "bob", "carol", ""}

TypedPasswords == {"pw1", "pw2", "pw3", ""}

\* the values time.time() returns
Times == {1000, 1300, 1599, 1600}

\* st.session_state.username before a login has stored one
NoUsername == << >>

\* the page buttons of main_app
Pages == {"Spending Tracker", "Credit Card History", "Asset Tracker"}

VARIABLES
    current_page,        \* st.session_state.current_page of this run
    pc,                  \* the block of the page function the run is at
    df,                  \* the loaded credit-card frame
    has_columns,         \* 'Number of Cards Opened 24 months prior' is a
                         \* column of df (the date columns always are)
    opening_dtype,       \* the dtype of the 'Opening Date' column of df
    open_cards_count,    \* what st.metric("Currently Open Cards", ...) shows
    metric_524_counts,   \* what st.metric("5/24 Counts", ...) shows
    current_date,        \* datetime.now() taken in col3
    months_ahead,        \* loop variable of the projection
    check_date,          \* candidate month of the current iteration
    cards_in_24_months,  \* count of the current iteration
    target_month,        \* result of the projection, None until found
    metric_524_by,       \* what st.metric("5/24 < 5 by", ...) shows
    current_date_col4,   \* current_date as assigned again in col4
    avg_months_open,     \* what st.metric("Average Months Open", ...) shows
    table_shown,         \* st.dataframe at the end of the page has run
    asset_df,            \* the asset frame df of asset_tracker_page
    yearmonth_dtype,     \* the dtype of its YearMonth column
    total_value,         \* total of the latest month (col3)
    account_allocation,  \* sums of the latest month by Account (tab1)
    portfolio_timeline,  \* period totals with their Growth_Rate column
    growth_stats,        \* the growth statistics table (tab2)
    account_growth,      \* the account growth comparison (tab3)
    spending_df,         \* the spending frame df of spending_tracker_page
    selected_category,   \* the choice of the category filter
    total_spending,      \* what st.metric("Total Spending", ...) shows
    category_spending,   \* the sums by category, largest first (tab1)
    top_categories,      \* the top 3 spending categories (insights)
    env,                 \* the environment the program was started in
    clock,               \* the latest value time.time() has returned
    authenticated,       \* st.session_state.authenticated
    login_attempts,      \* st.session_state.login_attempts
    last_attempt,        \* st.session_state.last_attempt
    session_username,    \* st.session_state.username, << >> while absent
    form_shown,          \* the login form is on the visitor's screen
    script,              \* the script this run executes
    current_time,        \* login_page: current_time of this run
    username,            \* login_page: the text of the Username field
    password,            \* login_page: the text of the Password field
    submit_button,       \* login_page: the Login button was pressed
    loader,              \* the loader that is running
    file_id,             \* file_id of the loader
    temp_files,          \* the temporary files that exist on disk
    download_ok,         \* download_file_from_drive has returned True
    drive_df,            \* what load_excel_from_drive has returned
    local_df,            \* what the read of data/transactions.xlsx gave
    result               \* what the loader returns, or "raised"

vars == << current_page, pc, df, has_columns, opening_dtype, open_cards_count,
           metric_524_counts, current_date, months_ahead, check_date,
           cards_in_24_months, target_month, metric_524_by,
           current_date_col4, avg_months_open, table_shown, asset_df,
           yearmonth_dtype, total_value, account_allocation,
           portfolio_timeline, growth_stats, account_growth, spending_df,
           selected_category, total_spending, category_spending,
           top_categories, env, clock, authenticated, login_attempts,
           last_attempt, session_username, form_shown, script, current_time,
           username, password, submit_button, loader, file_id, temp_files,
           download_ok, drive_df, local_df, result >>

cc_frame == << df, has_columns, opening_dtype >>

cc_metrics == << open_cards_count, metric_524_counts >>

cc_col4 == << current_date_col4, avg_months_open >>

asset_frame == << asset_df, yearmonth_dtype >>

asset_results == << total_value, account_allocation, portfolio_timeline,
                    growth_stats, account_growth >>

asset_vars == << asset_frame, asset_results >>

spending_results == << total_spending, category_spending, top_categories >>

spending_vars == << spending_df, selected_category, spending_results >>

cc_locals == << current_date, months_ahead, check_date, cards_in_24_months,
                target_month >>

page_state == << cc_frame, cc_metrics, cc_locals, metric_524_by, cc_col4,
                table_shown, asset_vars, spending_vars >>

login_session == << env, clock, authenticated, login_attempts, last_attempt,
                   session_username, form_shown >>

login_locals == << current_time, username, password, submit_button >>

login_vars == << login_session, script, login_locals >>

loader_vars == << loader, file_id, temp_files, download_ok, drive_df,
                 local_df, result >>

outside_page == << login_vars, loader_vars >>

\* no loader is running and no temporary file is left on disk
NoLoader ==
    /\ loader = "none"
    /\ file_id = "None"
    /\ temp_files = {}
    /\ download_ok = FALSE
    /\ drive_df = "none"
    /\ local_df = "none"
    /\ result = "none"

\* no script is running: the locals of login_page do not exist
NoRun ==
    /\ script = "none"
    /\ current_time = 0
    /\ username = ""
    /\ password = ""
    /\ submit_button = FALSE

\* init_authentication on the first run of a session
FreshSession ==
    /\ env \in Environments
    /\ clock = 0
    /\ authenticated = FALSE
    /\ login_attempts = 0
    /\ last_attempt = 0
    /\ session_username = NoUsername
    /\ form_shown = FALSE
    /\ NoRun

\* the session of a visitor who has logged in as the primary user
OpenSession ==
    /\ env = [username |-> << EnvStr("alice"), EnvStr("bob") >>,
              password |-> << EnvStr("pw1"), EnvStr("pw2") >>]
    /\ clock = 1000
    /\ authenticated = TRUE
    /\ login_attempts = 0
    /\ last_attempt = 1000
    /\ session_username = << "alice" >>
    /\ form_shown = FALSE
    /\ NoRun

PageInit ==
    /\ current_page = "none"
    /\ pc = "idle"
    /\ df = << >>
    /\ has_columns = FALSE
    /\ opening_dtype = "none"
    /\ open_cards_count = 0
    /\ metric_524_counts = MetricNotShown
    /\ current_date = None
    /\ months_ahead = 0
    /\ check_date = None
    /\ cards_in_24_months = 0
    /\ target_month = None
    /\ metric_524_by = NoMetric
    /\ current_date_col4 = None
    /\ avg_months_open = MetricNotShown
    /\ table_shown = FALSE
    /\ asset_df = << >>
    /\ yearmonth_dtype = "none"
    /\ total_value = NaN
    /\ account_allocation = << >>
    /\ portfolio_timeline = << >>
    /\ growth_stats = NoStats
    /\ account_growth = << >>
    /\ spending_df = << >>
    /\ selected_category = ""
    /\ total_spending = NaN
    /\ category_spending = << >>
    /\ top_categories = << >>

\* the page runs of a session that has passed the login gate
Init == PageInit /\ OpenSession /\ NoLoader

\* the first visit of a session
LoginInit == PageInit /\ FreshSession /\ NoLoader

\* the loaders, called in a session that has passed the login gate
LoadInit == PageInit /\ OpenSession /\ NoLoader

\* credit_card_history_page: df = load_credit_card_data(); an empty frame
\* ends the page with an error message
LoadCreditCardData ==
    /\ pc = "idle"
    /\ authenticated
    /\ UNCHANGED outside_page
    /\ \E rows \in CardFrames, cols \in BOOLEAN, dtype \in DateDtypes :
          /\ df' = rows
          /\ has_columns' = cols
          /\ opening_dtype' = IF rows = << >> THEN "none" ELSE dtype
          /\ pc' = IF rows = << >> THEN "done" ELSE "col1"
    /\ current_page' = "Credit Card History"
    /\ UNCHANGED << cc_metrics, cc_locals, metric_524_by, cc_col4, table_shown,
                    asset_vars, spending_vars >>

\* with col1 and with col2: the number of open cards and the 5/24 count of
\* the last record
Col1Col2Metrics ==
    /\ pc = "col1"
    /\ UNCHANGED outside_page
    /\ open_cards_count' = Len(open_cards_of(df))
    /\ metric_524_counts' = IF has_columns
                            THEN MetricValue(five_twenty_four_count(df))
                            ELSE MetricNA
    /\ pc' = "col3"
    /\ UNCHANGED << current_page, cc_frame, cc_locals, metric_524_by, cc_col4,
                    table_shown, asset_vars, spending_vars >>

\* with col3: the columns are missing
Col3NotAvailable ==
    /\ pc = "col3"
    /\ UNCHANGED outside_page
    /\ ~has_columns
    /\ metric_524_by' = MetricText("N/A")
    /\ pc' = "col4"
    /\ UNCHANGED << current_page, cc_frame, cc_metrics, cc_locals, cc_col4,
                    table_shown, asset_vars, spending_vars >>

\* with col3: unless the column is a datetime column already,
\* df['Opening Date'] = pd.to_datetime(df['Opening Date']);
\* current_date = datetime.now(); target_month = None
Col3Start ==
    /\ pc = "col3"
    /\ UNCHANGED outside_page
    /\ has_columns
    /\ opening_dtype' = "datetime64"
    /\ \E now \in Nows : current_date' = now
    /\ target_month' = None
    /\ months_ahead' = 0
    /\ pc' = "scan"
    /\ UNCHANGED << current_page, df, has_columns, cc_metrics, check_date,
                    cards_in_24_months, metric_524_by, cc_col4, table_shown,
                    asset_vars, spending_vars >>

\* one iteration of  for months_ahead in range(1, 25)
ScanMonth ==
    /\ pc = "scan"
    /\ UNCHANGED outside_page
    /\ months_ahead < HorizonMonths
    /\ LET k == months_ahead + 1
           cd == DateOffset(current_date, k)
           n == count_cards(df, cd)
       IN  /\ months_ahead' = k
           /\ check_date' = cd
           /\ cards_in_24_months' = n
           /\ IF below_threshold(n)
              THEN target_month' = cd /\ pc' = "scanned"
              ELSE target_month' = target_month /\ pc' = "scan"
    /\ UNCHANGED << current_page, cc_frame, cc_metrics, current_date,
                    metric_524_by, cc_col4, table_shown, asset_vars,
                    spending_vars >>

\* the range is exhausted without a break
ScanExhausted ==
    /\ pc = "scan"
    /\ UNCHANGED outside_page
    /\ months_ahead >= HorizonMonths
    /\ pc' = "scanned"
    /\ UNCHANGED << current_page, cc_frame, cc_metrics, cc_locals,
                    metric_524_by, cc_col4, table_shown, asset_vars,
                    spending_vars >>

\* if target_month: st.metric(..., strftime) else st.metric(..., "Beyond 24 months")
Col3Metric ==
    /\ pc = "scanned"
    /\ UNCHANGED outside_page
    /\ metric_524_by' = metric_for(target_month)
    /\ pc' = "col4"
    /\ UNCHANGED << current_page, cc_frame, cc_metrics, cc_locals, cc_col4,
                    table_shown, asset_vars, spending_vars >>

\* with col4: when there are open cards, current_date = datetime.now() is
\* taken again (not before the one of col3) and the average of the months
\* the open cards have been open is shown; then the table at the end of the
\* page
ShowTable ==
    /\ pc = "col4"
    /\ UNCHANGED outside_page
    /\ IF Len(open_cards_of(df)) > 0
       THEN \E now \in Nows :
               /\ current_date = None \/ ~DateLess(now, current_date)
               /\ current_date_col4' = now
               /\ avg_months_open' = average_months_open(open_cards_of(df), now)
       ELSE /\ current_date_col4' = current_date_col4
            /\ avg_months_open' = MetricNA
    /\ table_shown' = TRUE
    /\ pc' = "done"
    /\ UNCHANGED << current_page, cc_frame, cc_metrics, cc_locals,
                    metric_524_by, asset_vars, spending_vars >>

\* asset_tracker_page: df = load_asset_tracker_data(); an empty frame ends
\* the page
LoadAssetTrackerData ==
    /\ pc = "idle"
    /\ authenticated
    /\ UNCHANGED outside_page
    /\ \E rows \in AssetFrames, dtype \in DateDtypes :
          /\ asset_df' = rows
          /\ yearmonth_dtype' = IF rows = << >> THEN "none" ELSE dtype
          /\ pc' = IF rows = << >> THEN "done" ELSE "prep"
    /\ current_page' = "Asset Tracker"
    /\ UNCHANGED << cc_frame, cc_metrics, cc_locals, metric_524_by,
                    cc_col4, spending_vars, table_shown,
                    asset_results >>

\* the data preprocessing: df['Value'] = pd.to_numeric(df['Value'],
\* errors='coerce') and, unless the column is a datetime column already,
\* df['YearMonth'] = pd.to_datetime(df['YearMonth'])
PreprocessAssets ==
    /\ pc = "prep"
    /\ UNCHANGED outside_page
    /\ asset_df' = [i \in 1..Len(asset_df) |->
                        [asset_df[i] EXCEPT !.Value = to_numeric(@)]]
    /\ yearmonth_dtype' = "datetime64"
    /\ pc' = "latest"
    /\ UNCHANGED << current_page, cc_frame, cc_metrics, cc_locals, metric_524_by,
                    cc_col4, spending_vars,
                    table_shown, asset_results >>

\* with col3 and with tab1: the total of the latest month and its sums by
\* account
LatestMonth ==
    /\ pc = "latest"
    /\ UNCHANGED outside_page
    /\ LET latest_data == SelectMonth(asset_df, max_month(asset_df))
       IN  /\ total_value' = SumColumn(latest_data, "Value")
           /\ account_allocation' = groupby_key_sum(latest_data, "Account", "Value")
    /\ pc' = "tab2"
    /\ UNCHANGED << current_page, cc_frame, cc_metrics, cc_locals, metric_524_by,
                    cc_col4, spending_vars,
                    table_shown, asset_frame, portfolio_timeline,
                    growth_stats, account_growth >>

\* with tab2: the period totals, their month-over-month growth and the
\* growth statistics
Tab2GrowthOverTime ==
    /\ pc = "tab2"
    /\ UNCHANGED outside_page
    /\ LET timeline == with_growth_rate(groupby_sum(asset_df))
       IN  /\ portfolio_timeline' = timeline
           /\ growth_stats' = growth_stats_of(timeline)
    /\ pc' = "tab3"
    /\ UNCHANGED << current_page, cc_frame, cc_metrics, cc_locals, metric_524_by,
                    cc_col4, spending_vars,
                    table_shown, asset_frame, total_value,
                    account_allocation, account_growth >>

\* with tab3: the account growth comparison
Tab3AccountPerformance ==
    /\ pc = "tab3"
    /\ UNCHANGED outside_page
    /\ account_growth' = account_growth_of(asset_df)
    /\ pc' = "raw"
    /\ UNCHANGED << current_page, cc_frame, cc_metrics, cc_locals, metric_524_by,
                    cc_col4, spending_vars,
                    table_shown, asset_frame, total_value,
                    account_allocation, portfolio_timeline, growth_stats >>

\* the raw data section: building the account filter sorts the accounts,
\* which raises when a missing account meets a text; otherwise the table at
\* the end of the asset page is shown
ShowAssetTable ==
    /\ pc = "raw"
    /\ UNCHANGED outside_page
    /\ IF sorted_raises(asset_df, "Account")
       THEN table_shown' = FALSE /\ pc' = "failed"
       ELSE table_shown' = TRUE /\ pc' = "done"
    /\ UNCHANGED << current_page, cc_frame, cc_metrics, cc_locals, metric_524_by,
                    cc_col4, spending_vars,
                    asset_vars >>

\* spending_tracker_page: df = load_data(); an empty frame ends the page
LoadData ==
    /\ pc = "idle"
    /\ authenticated
    /\ UNCHANGED outside_page
    /\ \E rows \in SpendingFrames :
          /\ spending_df' = rows
          /\ pc' = IF rows = << >> THEN "done" ELSE "filters"
    /\ current_page' = "Spending Tracker"
    /\ UNCHANGED << cc_frame, cc_metrics, cc_locals, metric_524_by, cc_col4,
                    table_shown, asset_vars, selected_category,
                    spending_results >>

\* the sidebar and the overview: building the category filter sorts the
\* categories, which raises when a missing category meets a text; otherwise
\* a category (or 'All') is selected, the date range is left at the whole
\* range of the sheet, and the total of the filtered rows is shown
SelectFilters ==
    /\ pc = "filters"
    /\ UNCHANGED outside_page
    /\ IF sorted_raises(spending_df, "Category")
       THEN /\ pc' = "failed"
            /\ UNCHANGED << selected_category, total_spending >>
       ELSE \E selected \in {"All"}
                    \cup { spending_df[i].Category : i \in 1..Len(spending_df) } :
               /\ selected_category' = selected
               /\ total_spending' =
                      SumColumn(filter_category(spending_df, selected), "Amount")
               /\ pc' = "analysis"
    /\ UNCHANGED << current_page, cc_frame, cc_metrics, cc_locals,
                    metric_524_by, cc_col4, table_shown, asset_vars,
                    spending_df, category_spending, top_categories >>

\* the spending analysis, tab1: the sums by category, largest first; with
\* no filtered row the analysis and the insights are skipped
SpendingByCategory ==
    /\ pc = "analysis"
    /\ UNCHANGED outside_page
    /\ LET filtered_df == filter_category(spending_df, selected_category)
       IN  IF filtered_df = << >>
           THEN /\ pc' = "done"
                /\ UNCHANGED category_spending
           ELSE /\ category_spending' = sort_values_descending(
                       groupby_key_sum(filtered_df, "Category", "Amount"))
                /\ pc' = "insights"
    /\ UNCHANGED << current_page, cc_frame, cc_metrics, cc_locals,
                    metric_524_by, cc_col4, table_shown, asset_vars,
                    spending_df, selected_category, total_spending,
                    top_categories >>

\* the insights: the top 3 spending categories, then the most expensive
\* transaction, which fails when no filtered row has an amount
Insights ==
    /\ pc = "insights"
    /\ UNCHANGED outside_page
    /\ LET filtered_df == filter_category(spending_df, selected_category)
       IN  /\ top_categories' = nlargest(
                   groupby_key_sum(filtered_df, "Category", "Amount"), TopCategories)
           /\ pc' = IF idxmax_raises(filtered_df) THEN "failed" ELSE "done"
    /\ UNCHANGED << current_page, cc_frame, cc_metrics, cc_locals,
                    metric_524_by, cc_col4, table_shown, asset_vars,
                    spending_df, selected_category, total_spending,
                    category_spending >>

\* the script run is over (it returned or it raised); the next run starts
\* with fresh locals
Rerun ==
    /\ pc \in {"done", "failed"}
    /\ UNCHANGED login_session
    /\ UNCHANGED loader_vars
    /\ script' = "none"
    /\ current_time' = 0
    /\ username' = ""
    /\ password' = ""
    /\ submit_button' = FALSE
    /\ current_page' = "none"
    /\ pc' = "idle"
    /\ df' = << >>
    /\ has_columns' = FALSE
    /\ opening_dtype' = "none"
    /\ open_cards_count' = 0
    /\ metric_524_counts' = MetricNotShown
    /\ current_date_col4' = None
    /\ avg_months_open' = MetricNotShown
    /\ spending_df' = << >>
    /\ selected_category' = ""
    /\ total_spending' = NaN
    /\ category_spending' = << >>
    /\ top_categories' = << >>
    /\ current_date' = None
    /\ months_ahead' = 0
    /\ check_date' = None
    /\ cards_in_24_months' = 0
    /\ target_month' = None
    /\ metric_524_by' = NoMetric
    /\ table_shown' = FALSE
    /\ asset_df' = << >>
    /\ yearmonth_dtype' = "none"
    /\ total_value' = NaN
    /\ account_allocation' = << >>
    /\ portfolio_timeline' = << >>
    /\ growth_stats' = NoStats
    /\ account_growth' = << >>

Next ==
    \/ LoadCreditCardData
    \/ Col1Col2Metrics
    \/ Col3NotAvailable
    \/ Col3Start
    \/ ScanMonth
    \/ ScanExhausted
    \/ Col3Metric
    \/ ShowTable
    \/ LoadAssetTrackerData
    \/ PreprocessAssets
    \/ LatestMonth
    \/ Tab2GrowthOverTime
    \/ Tab3AccountPerformance
    \/ ShowAssetTable
    \/ LoadData
    \/ SelectFilters
    \/ SpendingByCategory
    \/ Insights
    \/ Rerun

Spec == Init /\ [][Next]_vars

(***************************************************************************)
(* The runs of a session from its first visit.  A page function neither    *)
(* reads nor writes authenticated, login_attempts or last_attempt, so the  *)
(* run of a page is one step here: the frame it loads and whether it       *)
(* shows it.                                                               *)
(***************************************************************************)

\* the frames a page loads in the runs of the login gate
GateFrames == {<< >>} \cup {<< row >> : row \in CardRows}

main_ungated(is_authenticated) == "main_app"

\* main, after init_authentication: login_page unless the session is
\* authenticated
main(is_authenticated) ==
    IF ~is_authenticated THEN "login_page" ELSE "main_app"

\* main of spending_tracker_secure.py starts a run
Main ==
    /\ pc = "idle"
    /\ UNCHANGED loader_vars
    /\ script' = "spending_tracker_secure.py"
    /\ pc' = main(authenticated)
    /\ UNCHANGED << current_page, page_state, login_session, login_locals >>

\* login_page: no username is configured; the error is shown and the run
\* ends
LoginNotConfigured ==
    /\ pc = "login_page"
    /\ UNCHANGED loader_vars
    /\ get_available_usernames(env) = << >>
    /\ form_shown' = FALSE
    /\ pc' = "done"
    /\ UNCHANGED << current_page, page_state, env, clock, authenticated,
                    login_attempts, last_attempt, session_username, script,
                    login_locals >>

\* login_page: current_time = time.time() and the rate limiting block
RateLimit ==
    /\ pc = "login_page"
    /\ UNCHANGED loader_vars
    /\ get_available_usernames(env) # << >>
    /\ \E t \in Times :
          /\ t >= clock
          /\ clock' = t
          /\ current_time' = t
          /\ LET limited == rate_limit(login_attempts, last_attempt, t)
             IN  /\ login_attempts' = limited.login_attempts
                 /\ pc' = IF limited.locked THEN "done" ELSE "form"
                 /\ form_shown' = IF limited.locked THEN FALSE ELSE form_shown
    /\ UNCHANGED << current_page, page_state, env, authenticated,
                    last_attempt, session_username, script, username,
                    password, submit_button >>

\* login_page: the form is drawn.  submit_button is True in the run a
\* press of the Login button has started; the button can be pressed only
\* on a form the run before has drawn.
LoginForm ==
    /\ pc = "form"
    /\ UNCHANGED loader_vars
    /\ \E pressed \in BOOLEAN, u \in TypedUsernames, p \in TypedPasswords :
          /\ pressed => form_shown
          /\ ~pressed => (u = "" /\ p = "")
          /\ submit_button' = pressed
          /\ username' = u
          /\ password' = p
          /\ pc' = IF pressed THEN "submit" ELSE "done"
    /\ form_shown' = TRUE
    /\ UNCHANGED << current_page, page_state, env, clock, authenticated,
                    login_attempts, last_attempt, session_username, script,
                    current_time >>

\* login_page: if submit_button
Submit ==
    /\ pc = "submit"
    /\ UNCHANGED loader_vars
    /\ last_attempt' = current_time
    /\ IF check_credentials(env, username, password)
          THEN /\ authenticated' = TRUE
               /\ session_username' = << username >>
               /\ login_attempts' = 0
               /\ form_shown' = FALSE
          ELSE /\ login_attempts' = login_attempts + 1
               /\ UNCHANGED << authenticated, session_username, form_shown >>
    /\ pc' = "done"
    /\ UNCHANGED << current_page, page_state, env, clock, script,
                    login_locals >>

\* main_app: the Logout button ends the session; otherwise the page of the
\* pressed page button runs
MainApp ==
    /\ pc = "main_app"
    /\ UNCHANGED loader_vars
    /\ \E logout \in BOOLEAN :
          IF logout
              THEN /\ authenticated' = FALSE
                   /\ UNCHANGED << current_page, df, table_shown >>
              ELSE /\ \E page \in Pages, rows \in GateFrames :
                         /\ current_page' = page
                         /\ df' = IF page = "Credit Card History"
                                     THEN rows ELSE << >>
                         /\ table_shown' = (page = "Credit Card History"
                                              /\ rows # << >>)
                   /\ UNCHANGED authenticated
    /\ form_shown' = FALSE
    /\ pc' = "done"
    /\ UNCHANGED << has_columns, opening_dtype, cc_metrics, cc_locals,
                    metric_524_by, cc_col4, asset_vars, spending_vars, env,
                    clock, login_attempts, last_attempt, session_username,
                    script, login_locals >>

\* pages/credit_card_history.py, main: the page script loads the frame and
\* shows it
PageScriptMain ==
    /\ pc = "idle"
    /\ UNCHANGED loader_vars
    /\ script' = "pages/credit_card_history.py"
    /\ \E rows \in GateFrames :
          /\ df' = rows
          /\ table_shown' = (rows # << >>)
    /\ form_shown' = FALSE
    /\ pc' = "done"
    /\ UNCHANGED << current_page, has_columns, opening_dtype, cc_metrics,
                    cc_locals, metric_524_by, cc_col4, asset_vars,
                    spending_vars, env, clock, authenticated, login_attempts,
                    last_attempt, session_username, login_locals >>

LoginNext ==
    \/ Main
    \/ LoginNotConfigured
    \/ RateLimit
    \/ LoginForm
    \/ Submit
    \/ MainApp
    \/ PageScriptMain
    \/ Rerun

LoginSpec == LoginInit /\ [][LoginNext]_vars

(***************************************************************************)
(* The loaders.  A call into the Google client, gdown or pandas either     *)
(* gives its result or raises; an exception no try block of the loader     *)
(* catches ends the loader with result "raised".  A frame is "rows" or     *)
(* "empty" here: the steps of a loader depend on nothing else of it.       *)
(***************************************************************************)

\* the loaders of the program: load_data_with_fallback of
\* google_drive_utils.py, load_credit_card_data and load_asset_tracker_data
\* of spending_tracker_secure.py, load_credit_card_data of
\* pages/credit_card_history.py
Loaders == {"load_data_with_fallback", "load_credit_card_data",
            "load_asset_tracker_data", "pages.load_credit_card_data"}

\* temp_filename of each loader (load_data_with_fallback downloads in
\* load_excel_from_drive)
temp_filename(l) ==
    CASE l = "load_data_with_fallback" -> "temp_{file_name}_data.xlsx"
      [] l = "load_asset_tracker_data" -> "temp_asset_tracker_data.xlsx"
      [] OTHER -> "temp_credit_card_data.xlsx"

\* what token.json holds: no file, text that is no credential, a valid
\* credential, an expired one with a refresh token, an invalid one without
Tokens == {"absent", "malformed", "valid", "expired", "no_refresh_token"}

\* get_google_drive_service: a service, None, or an exception of
\* Credentials.from_authorized_user_file or of creds.refresh
get_google_drive_service(token, refresh_ok) ==
    CASE token = "absent" -> "None"
      [] token = "malformed" -> "raised"
      [] token = "valid" -> "service"
      [] token = "expired" -> IF refresh_ok THEN "service" ELSE "raised"
      [] OTHER -> "None"

\* the frame a read gives, or the exception it raises
ReadOutcomes == {"rows", "empty", "raised"}

\* a loader starts: the file id is taken from the environment if the
\* variable of the loader is set, and searched for otherwise
StartLoader ==
    /\ pc = "idle"
    /\ loader = "none"
    /\ \E l \in Loaders, id_in_env \in BOOLEAN :
          /\ loader' = l
          /\ file_id' = IF id_in_env THEN "env" ELSE "None"
          /\ pc' = IF id_in_env THEN "download" ELSE "get_service"
    /\ UNCHANGED << temp_files, download_ok, drive_df, local_df, result >>
    /\ UNCHANGED << current_page, page_state, login_vars >>

\* get_file_id_from_path: service = get_google_drive_service(), outside
\* the try block
GetService ==
    /\ pc = "get_service"
    /\ \E token \in Tokens, refresh_ok \in BOOLEAN :
          LET service == get_google_drive_service(token, refresh_ok)
          IN  CASE service = "raised" ->
                       /\ result' = "raised"
                       /\ pc' = "returned"
                       /\ UNCHANGED drive_df
                [] service = "None" ->
                       IF loader = "load_data_with_fallback"
                           THEN /\ drive_df' = "empty"
                                /\ pc' = "fallback"
                                /\ UNCHANGED result
                           ELSE /\ result' = "empty"
                                /\ pc' = "returned"
                                /\ UNCHANGED drive_df
                [] OTHER ->
                       /\ pc' = "find_file"
                       /\ UNCHANGED << drive_df, result >>
    /\ UNCHANGED << loader, file_id, temp_files, download_ok, local_df >>
    /\ UNCHANGED << current_page, page_state, login_vars >>

\* get_file_id_from_path, the try block: the two queries give the id of
\* the file, or None if the folder or the file is not found or a query
\* raises
FindFile ==
    /\ pc = "find_file"
    /\ \E found \in BOOLEAN :
          IF found
              THEN /\ file_id' = "found"
                   /\ pc' = "download"
                   /\ UNCHANGED << drive_df, result >>
              ELSE /\ UNCHANGED file_id
                   /\ IF loader = "load_data_with_fallback"
                         THEN /\ drive_df' = "empty"
                              /\ pc' = "fallback"
                              /\ UNCHANGED result
                         ELSE /\ result' = "empty"
                              /\ pc' = "returned"
                              /\ UNCHANGED drive_df
    /\ UNCHANGED << loader, temp_files, download_ok, local_df >>
    /\ UNCHANGED << current_page, page_state, login_vars >>

\* download_file_from_drive: gdown.download writes the temporary file, or
\* raises and the function returns False
Download ==
    /\ pc = "download"
    /\ \E ok \in BOOLEAN :
          IF ok
              THEN /\ download_ok' = TRUE
                   /\ temp_files' = temp_files \cup {temp_filename(loader)}
                   /\ pc' = "read_excel"
                   /\ UNCHANGED << drive_df, result >>
              ELSE /\ UNCHANGED << download_ok, temp_files >>
                   /\ IF loader = "load_data_with_fallback"
                         THEN /\ drive_df' = "empty"
                              /\ pc' = "fallback"
                              /\ UNCHANGED result
                         ELSE /\ result' = "empty"
                              /\ pc' = "returned"
                              /\ UNCHANGED drive_df
    /\ UNCHANGED << loader, file_id, local_df >>
    /\ UNCHANGED << current_page, page_state, login_vars >>

\* load_excel_from_drive: pd.read_excel in a try block; the temporary file
\* is removed after a read that succeeded, the except branch returns an
\* empty frame
ReadExcelFromDrive ==
    /\ pc = "read_excel"
    /\ loader = "load_data_with_fallback"
    /\ \E read \in ReadOutcomes :
          /\ drive_df' = IF read = "raised" THEN "empty" ELSE read
          /\ temp_files' = IF read = "raised"
                              THEN temp_files
                              ELSE temp_files \ {temp_filename(loader)}
    /\ pc' = "fallback"
    /\ UNCHANGED << loader, file_id, download_ok, local_df, result >>
    /\ UNCHANGED << current_page, page_state, login_vars >>

\* load_credit_card_data and load_asset_tracker_data: pd.read_excel in a
\* try block whose finally branch removes the temporary file
ReadExcelAndCleanUp ==
    /\ pc = "read_excel"
    /\ loader # "load_data_with_fallback"
    /\ \E read \in ReadOutcomes :
          result' = IF read = "raised" THEN "empty" ELSE read
    /\ temp_files' = temp_files \ {temp_filename(loader)}
    /\ pc' = "returned"
    /\ UNCHANGED << loader, file_id, download_ok, drive_df, local_df >>
    /\ UNCHANGED << current_page, page_state, login_vars >>

\* load_data_with_fallback: if df.empty, the local file is read; a read
\* that raises returns an empty frame
Fallback ==
    /\ pc = "fallback"
    /\ IF drive_df = "empty"
          THEN /\ local_df' = TRUE
               /\ \E read \in ReadOutcomes :
                     IF read = "raised"
                         THEN /\ result' = "empty"
                              /\ pc' = "returned"
                         ELSE /\ result' = read
                              /\ pc' = "to_datetime"
          ELSE /\ result' = drive_df
               /\ pc' = "to_datetime"
               /\ UNCHANGED local_df
    /\ UNCHANGED << loader, file_id, temp_files, download_ok, drive_df >>
    /\ UNCHANGED << current_page, page_state, login_vars >>

\* load_data_with_fallback: the date column, if the frame has one, is
\* converted with pd.to_datetime, which raises on a text that is no date
ToDatetime ==
    /\ pc = "to_datetime"
    /\ \E has_column \in BOOLEAN, parses \in BOOLEAN :
          result' = IF has_column /\ result = "rows" /\ ~parses
                        THEN "raised" ELSE result
    /\ pc' = "returned"
    /\ UNCHANGED << loader, file_id, temp_files, download_ok, drive_df,
                    local_df >>
    /\ UNCHANGED << current_page, page_state, login_vars >>

\* the caller goes on; the files on disk stay
LoaderDone ==
    /\ pc = "returned"
    /\ pc' = "idle"
    /\ loader' = "none"
    /\ file_id' = "None"
    /\ download_ok' = FALSE
    /\ drive_df' = "none"
    /\ local_df' = "none"
    /\ result' = "none"
    /\ UNCHANGED temp_files
    /\ UNCHANGED << current_page, page_state, login_vars >>

LoadNext ==
    \/ StartLoader
    \/ GetService
    \/ FindFile
    \/ Download
    \/ ReadExcelFromDrive
    \/ ReadExcelAndCleanUp
    \/ Fallback
    \/ ToDatetime
    \/ LoaderDone

LoadSpec == LoadInit /\ [][LoadNext]_vars

(***************************************************************************)
(* Vocabulary of the properties                                            *)
(***************************************************************************)
\* the number of a calendar month, counted from year 0
MonthNumber(d) == d.year * 12 + (d.month - 1)

\* the rows of df that carry an opening date
DatedRows == { i \in 1..Len(df) : df[i].opening # NaT }

\* the projection loop has evaluated at least one candidate in this run
Evaluated == months_ahead >= 1

\* the projection loop of this run is over
ScanOver == pc \in {"scanned", "col4", "done"} /\ current_date # None

\* the number of dated rows that lie 0 .. 23 months before the k-th month
\* after the start month
WindowCount(k) ==
    Cardinality({ i \in DatedRows :
        LET back == (MonthNumber(current_date) + k) - MonthNumber(df[i].opening)
        IN  0 <= back /\ back <= 23 })

\* the rows of df that lie exactly n months before the check date
RowsBack(n) ==
    { i \in DatedRows : MonthNumber(check_date) - MonthNumber(df[i].opening) = n }

\* df without the rows whose index is in S
RECURSIVE Without(_, _, _)
Without(rows, S, i) ==
    IF i > Len(rows) THEN << >>
    ELSE (IF i \in S THEN << >> ELSE << rows[i] >>) \o Without(rows, S, i + 1)

(***************************************************************************)
(* Properties of the 24-month window count                                 *)
(***************************************************************************)
\* C1: once a candidate month has been evaluated, cards_in_24_months is the
\* number of rows with a non-null opening date whose
\* months_diff = (check.year - row.year) * 12 + (check.month - row.month)
\* satisfies 0 <= months_diff < 24; a row is counted iff it is such a row.
C1_WindowMembership ==
    Evaluated =>
        cards_in_24_months =
            Cardinality({ i \in 1..Len(df) :
                /\ df[i].opening # NaT
                /\ LET md == (check_date.year - df[i].opening.year) * 12
                             + (check_date.month - df[i].opening.month)
                   IN  0 <= md /\ md < 24 })

\* a second candidate was evaluated on a frame with a counted row, a dated
\* row outside the window and a null row
C1_Witness ==
    /\ months_ahead >= 2
    /\ cards_in_24_months >= 1
    /\ cards_in_24_months < Cardinality(DatedRows)
    /\ Cardinality(DatedRows) < Len(df)

\* C2: when the loop is over, a returned month is the start month advanced
\* by some k in 1..24 whose window count is < 5 while the count of every
\* candidate 1..k-1 is >= 5; no month is returned only if all 24 candidates
\* have a count >= 5.  Counts of later candidates do not matter.
C2_FirstQualifyingMonth ==
    ScanOver =>
        IF target_month # None
        THEN \E k \in 1..24 :
                /\ MonthNumber(target_month) = MonthNumber(current_date) + k
                /\ WindowCount(k) < 5
                /\ \A j \in 1..(k - 1) : WindowCount(j) >= 5
        ELSE \A k \in 1..24 : WindowCount(k) >= 5

\* the first candidate had a count of exactly 5, a later one was returned,
\* and after it the count is back at 5 or more
C2_Witness ==
    /\ ScanOver
    /\ target_month # None
    /\ months_ahead >= 2
    /\ WindowCount(1) = 5
    /\ \E j \in (months_ahead + 1)..24 : WindowCount(j) >= 5

\* C3 as stated: the count is the number of dated rows in [M - 24, M), the
\* month 24 back included and the reference month itself excluded.
C3_AsStated ==
    Evaluated =>
        cards_in_24_months =
            Cardinality({ i \in DatedRows :
                /\ MonthNumber(check_date) - 24 <= MonthNumber(df[i].opening)
                /\ MonthNumber(df[i].opening) < MonthNumber(check_date) })

\* C3 amended: the count is the number of dated rows whose month lies in
\* (M - 24, M]: the month 24 back is excluded, the reference month included.
C3_HalfOpenInterval ==
    Evaluated =>
        cards_in_24_months =
            Cardinality({ i \in DatedRows :
                /\ MonthNumber(check_date) - 24 < MonthNumber(df[i].opening)
                /\ MonthNumber(df[i].opening) <= MonthNumber(check_date) })

\* a candidate was evaluated with rows in the reference month itself, which
\* were counted together with earlier rows, and a row after it, which was not
C3_Witness ==
    /\ Evaluated
    /\ RowsBack(0) # {}
    /\ cards_in_24_months > Cardinality(RowsBack(0))
    /\ cards_in_24_months < Cardinality(DatedRows)

\* C4: the rows dated exactly 24 months before the check date add nothing
\* to the count (the count is that of the frame without them), and every
\* row dated 23 months before it adds one.
C4_WindowBoundary ==
    Evaluated =>
        /\ cards_in_24_months = count_cards(Without(df, RowsBack(24), 1), check_date)
        /\ cards_in_24_months =
              count_cards(Without(df, RowsBack(23), 1), check_date)
              + Cardinality(RowsBack(23))

\* the candidate that first leaves a row 24 months back: the candidate
\* before it, where that row was 23 months back, counted 5 or more, and
\* now the count is below 5
C4_Witness ==
    /\ months_ahead >= 2
    /\ RowsBack(24) # {}
    /\ WindowCount(months_ahead - 1) >= 5
    /\ cards_in_24_months < 5
    /\ cards_in_24_months >= 1

\* C5: if every one of the 24 candidates has a count >= 5, the run leaves
\* target_month at None, shows "Beyond 24 months", and still reaches the end
\* of the page with the table rendered.
C5_NotFound ==
    (ScanOver /\ \A k \in 1..24 : WindowCount(k) >= 5) =>
        /\ target_month = None
        /\ pc \in {"col4", "done"} => metric_524_by = MetricText("Beyond 24 months")
        /\ pc = "done" => table_shown

\* a run whose search was exhausted has rendered the whole page
C5_Witness ==
    /\ pc = "done"
    /\ current_date # None
    /\ target_month = None
    /\ metric_524_by = MetricText("Beyond 24 months")
    /\ table_shown

\* C6: the loop can always take a step, every step taken inside the loop
\* either leaves it or moves to the next candidate, the candidate number
\* never exceeds 24, and the loop is left with a month or after candidate 24
\* (so at most 24 candidates are evaluated before the loop stops).
C6_SearchTerminates ==
    [][ /\ pc = "scan" => ENABLED (ScanMonth \/ ScanExhausted)
        /\ pc = "scan" =>
            \/ pc' = "scanned"
            \/ pc' = "scan" /\ months_ahead' = months_ahead + 1
        /\ months_ahead' <= 24
        /\ (pc = "scan" /\ pc' = "scanned") =>
              (target_month' # None \/ months_ahead' = 24)
      ]_vars

\* the loop was left after all 24 candidates, without a month
C6_Witness ==
    /\ pc = "scanned"
    /\ months_ahead = 24
    /\ target_month = None
    /\ Len(df) >= 5

\* C7: rows with a null opening date never contribute (the count is at most
\* the number of dated rows and equals the count of the frame without the
\* null rows), and a check month with no dated row in its window counts 0.
C7_NullDatesSkipped ==
    Evaluated =>
        /\ cards_in_24_months <= Cardinality(DatedRows)
        /\ cards_in_24_months =
              count_cards(Without(df, (1..Len(df)) \ DatedRows, 1), check_date)
        /\ (\A i \in DatedRows :
                \/ MonthNumber(df[i].opening) > MonthNumber(check_date)
                \/ MonthNumber(df[i].opening) <= MonthNumber(check_date) - 24)
            => cards_in_24_months = 0

\* a frame with a null row and a dated row outside the window was counted
\* as 0, and the run went on
C7_Witness ==
    /\ pc \in {"col4", "done"}
    /\ Evaluated
    /\ cards_in_24_months = 0
    /\ DatedRows # {}
    /\ DatedRows # 1..Len(df)

\* the window covers the whole date range of the frame and the check month
\* is at or after the latest date
WindowCoversAll ==
    \A i \in DatedRows :
        /\ MonthNumber(df[i].opening) <= MonthNumber(check_date)
        /\ MonthNumber(check_date) - MonthNumber(df[i].opening) < 24

\* C8 as stated: when the window covers the whole date range and the check
\* month is at or after the latest date, the count is len(df).
C8_AsStated ==
    (Evaluated /\ WindowCoversAll) => cards_in_24_months = Len(df)

\* C8 amended: in that case the count is the number of rows with a non-null
\* opening date, which is len(df) exactly when no row has a null date.
C8_CountsAllDatedRows ==
    (Evaluated /\ WindowCoversAll) =>
        /\ cards_in_24_months = Cardinality(DatedRows)
        /\ (cards_in_24_months = Len(df)) <=> (DatedRows = 1..Len(df))

\* a frame of several dates, one of them null, all dated rows in the window
C8_Witness ==
    /\ Evaluated
    /\ WindowCoversAll
    /\ Cardinality({ df[i].opening : i \in DatedRows }) >= 2
    /\ DatedRows # 1..Len(df)
    /\ cards_in_24_months = Cardinality(DatedRows)

\* df and a date with every day of the month replaced by d
OnDay(date, d) == IF date = NaT THEN NaT ELSE Date(date.year, date.month, d)

FrameOnDay(rows, d) ==
    [i \in 1..Len(rows) |-> [rows[i] EXCEPT !.opening = OnDay(@, d)]]

\* C9: candidate k has as check month exactly the start month advanced by k
\* calendar months, whatever the day of the month, and the count is the
\* same when every day of the month (of the rows and of the check date) is
\* replaced by the 1st or by the 28th.
C9_CalendarMonths ==
    Evaluated =>
        /\ MonthNumber(check_date) = MonthNumber(current_date) + months_ahead
        /\ check_date.day <= current_date.day
        /\ \A d \in {1, 28} :
              cards_in_24_months = count_cards(FrameOnDay(df, d), OnDay(check_date, d))

\* started on the 31st, a candidate in a shorter month was evaluated
C9_Witness ==
    /\ Evaluated
    /\ current_date.day = 31
    /\ check_date.day < 31
    /\ months_ahead >= 2
    /\ cards_in_24_months >= 1

(***************************************************************************)
(* Properties of the growth series                                         *)
(***************************************************************************)
\* the growth series of this run has been computed
GrowthComputed ==
    current_page = "Asset Tracker" /\ pc \in {"tab3", "raw", "done", "failed"}

\* the fraction r equals (a - b) / b * 100 for fractions a and b # 0
IsGrowthOf(r, a, b) ==
    /\ r.kind = "num"
    /\ r.num * (a.den * b.num) = 100 * (a.num * b.den - b.num * a.den) * r.den

\* C10: the first point of the series has no growth rate (NaN, not 0), for
\* every later point whose predecessor is not 0 the rate is
\* (value[i] - value[i-1]) / value[i-1] * 100, and the totals 100, 110, 99
\* give the rates null, +10, -10.
C10_GrowthSeries ==
    GrowthComputed =>
        LET t == portfolio_timeline
        IN  /\ Len(t) >= 1 => t[1].Growth_Rate = NaN
            /\ \A i \in 2..Len(t) :
                  t[i - 1].Value.num # 0 =>
                      IsGrowthOf(t[i].Growth_Rate, t[i].Value, t[i - 1].Value)
            /\ ([i \in 1..Len(t) |-> t[i].Value] = << Float(100), Float(110), Float(99) >>)
                  => ([i \in 1..Len(t) |-> t[i].Growth_Rate]
                          = << NaN, Float(10), Float(-10) >>)

\* the series 100, 110, 99 of the example
C10_Witness ==
    /\ GrowthComputed
    /\ Len(portfolio_timeline) = 3
    /\ portfolio_timeline[1].Value = Float(100)
    /\ portfolio_timeline[2].Value = Float(110)
    /\ portfolio_timeline[3].Value = Float(99)
    /\ portfolio_timeline[3].Growth_Rate = Float(-10)

\* the asset page of this run has got past the given blocks on a frame that
\* was not empty
LatestComputed ==
    /\ current_page = "Asset Tracker"
    /\ pc \in {"tab2", "tab3", "raw", "done", "failed"}
    /\ asset_df # << >>

AccountsCompared ==
    /\ current_page = "Asset Tracker"
    /\ pc \in {"raw", "done", "failed"}
    /\ asset_df # << >>

\* the rows of asset_df whose Value is a number
NumberRows == { i \in 1..Len(asset_df) : asset_df[i].Value.kind = "num" }

\* the sum of the (whole) numbers of the rows of asset_df whose index is in S
RECURSIVE TotalFrom(_, _)
TotalFrom(S, i) ==
    IF i > Len(asset_df) THEN 0
    ELSE (IF i \in S /\ i \in NumberRows THEN asset_df[i].Value.num ELSE 0)
         + TotalFrom(S, i + 1)

Total(S) == TotalFrom(S, 1)

RowsOfMonth(m) == { i \in 1..Len(asset_df) : asset_df[i].YearMonth = m }

RowsOfAccount(a) == { i \in 1..Len(asset_df) : asset_df[i].Account = a }

MonthsOf(S) == { asset_df[i].YearMonth : i \in S }

\* the earliest and the latest of a non-empty set of months
Earliest(M) == CHOOSE m \in M : \A n \in M : MonthNumber(m) <= MonthNumber(n)

Latest(M) == CHOOSE m \in M : \A n \in M : MonthNumber(n) <= MonthNumber(m)

\* a result that is no float at all
IsDistinctError(x) == x.kind \notin {"num", "inf", "-inf", "nan"}

\* the points of the timeline whose previous period total is 0
ZeroBaseline == { i \in 2..Len(portfolio_timeline) :
                     portfolio_timeline[i - 1].Value = Float(0) }

\* the growth rates of the points that are not in S
RatesWithout(S) ==
    LET keep == { i \in 1..Len(portfolio_timeline) : i \notin S }
        RECURSIVE pick(_)
        pick(i) == IF i > Len(portfolio_timeline) THEN << >>
                   ELSE (IF i \in keep THEN << portfolio_timeline[i].Growth_Rate >>
                         ELSE << >>) \o pick(i + 1)
    IN  pick(1)

\* C11: a point whose previous period total is 0 gets a distinct "undefined
\* growth" result: not 0 or any other number, not an infinity, not the NaN
\* of the first point; and the average, best and worst month are those of
\* the other points.
C11_AsStated ==
    GrowthComputed =>
        /\ \A i \in ZeroBaseline :
              IsDistinctError(portfolio_timeline[i].Growth_Rate)
        /\ growth_stats.computed =>
              /\ growth_stats.avg_monthly_growth = series_mean(RatesWithout(ZeroBaseline))
              /\ growth_stats.max_growth = series_max(RatesWithout(ZeroBaseline))
              /\ growth_stats.max_loss = series_min(RatesWithout(ZeroBaseline))

\* C12: when the first period's value is 0, total_growth is a DivisionByZero
\* failure and no float: for the portfolio series and for every entry of
\* the account growth comparison.
C12_AsStated ==
    /\ (GrowthComputed /\ growth_stats.computed
            /\ portfolio_timeline[1].Value = Float(0))
          => IsDistinctError(growth_stats.total_growth)
    /\ AccountsCompared =>
          \A j \in 1..Len(account_growth) :
              account_growth[j].starting = Float(0)
                  => IsDistinctError(account_growth[j].growth)

\* the float r equals (last / first - 1) * 100 for whole numbers, first # 0
IsTotalGrowthOf(r, first, last) ==
    /\ r.kind = "num"
    /\ r.num * first = (last - first) * 100 * r.den

\* the total growth of the rows in S is g: their earliest period total is
\* not 0 and g is (latest total / earliest total - 1) * 100, or the
\* earliest total is 0
TotalGrowthIs(S, g) ==
    LET first == Total(S \cap RowsOfMonth(Earliest(MonthsOf(S))))
        last == Total(S \cap RowsOfMonth(Latest(MonthsOf(S))))
    IN  first # 0 => IsTotalGrowthOf(g, first, last)

\* C13: total_growth is computed exactly for a series of two or more
\* periods, and is then (last.value / first.value - 1) * 100 with first and
\* last the totals of the earliest and of the latest period (first # 0):
\* for the portfolio and for every account; 100, 110, 99 gives -1.
C13_TotalGrowth ==
    /\ GrowthComputed =>
          LET all == 1..Len(asset_df)
          IN  /\ growth_stats.computed <=> Cardinality(MonthsOf(all)) >= 2
              /\ growth_stats.computed => TotalGrowthIs(all, growth_stats.total_growth)
              /\ (Column(portfolio_timeline, "Value")
                      = << Float(100), Float(110), Float(99) >>)
                    => growth_stats.total_growth = Float(-1)
    /\ AccountsCompared =>
          /\ \A a \in {"A", "B"} :
                (Cardinality(MonthsOf(RowsOfAccount(a))) >= 2)
                    <=> (\E j \in 1..Len(account_growth) : account_growth[j].Account = a)
          /\ \A j \in 1..Len(account_growth) :
                TotalGrowthIs(RowsOfAccount(account_growth[j].Account),
                              account_growth[j].growth)

\* the totals 100, 110, 99 of the example, all of one account
C13_Witness ==
    /\ AccountsCompared
    /\ Column(portfolio_timeline, "Value") = << Float(100), Float(110), Float(99) >>
    /\ growth_stats.total_growth = Float(-1)
    /\ \E j \in 1..Len(account_growth) :
          account_growth[j].growth = Float(-1)

\* C14: whatever the order of the rows, the timeline has exactly one point
\* for each period of the frame, in strictly increasing period order, each
\* with the total of its period; so the point before a point is the latest
\* earlier period of the data.
C14_SortedByPeriod ==
    GrowthComputed =>
        LET t == portfolio_timeline
        IN  /\ \A i \in 1..(Len(t) - 1) :
                  MonthNumber(t[i].YearMonth) < MonthNumber(t[i + 1].YearMonth)
            /\ { t[i].YearMonth : i \in 1..Len(t) } = MonthsOf(1..Len(asset_df))
            /\ \A i \in 1..Len(t) : t[i].Value = Float(Total(RowsOfMonth(t[i].YearMonth)))
            /\ \A i \in 2..Len(t) :
                  \A m \in MonthsOf(1..Len(asset_df)) :
                      ~ ( MonthNumber(t[i - 1].YearMonth) < MonthNumber(m)
                          /\ MonthNumber(m) < MonthNumber(t[i].YearMonth) )

\* a frame whose rows come latest period first, two of them in one period
C14_Witness ==
    /\ GrowthComputed
    /\ Len(asset_df) = 3
    /\ Len(portfolio_timeline) = 2
    /\ MonthNumber(asset_df[1].YearMonth) > MonthNumber(asset_df[2].YearMonth)
    /\ portfolio_timeline[2].Growth_Rate.kind = "num"

\* C17: a row whose Value could not be parsed adds nothing to the total of
\* the latest month, to the sums by account or to the period totals (each
\* is the sum of the parsed numbers), and it never makes the page fail.
C17_UnparseableExcluded ==
    /\ LatestComputed =>
          LET latest == RowsOfMonth(Latest(MonthsOf(1..Len(asset_df))))
          IN  /\ total_value = Float(Total(latest))
              /\ \A j \in 1..Len(account_allocation) :
                    account_allocation[j].Value
                        = Float(Total(latest \cap RowsOfAccount(account_allocation[j].key)))
    /\ GrowthComputed =>
          \A i \in 1..Len(portfolio_timeline) :
              portfolio_timeline[i].Value
                  = Float(Total(RowsOfMonth(portfolio_timeline[i].YearMonth)))
    /\ (current_page = "Asset Tracker" /\ pc = "failed") =>
          \E i \in 1..Len(asset_df) : asset_df[i].Account = NullKey

\* the whole page was rendered on a frame whose latest month has a row that
\* could not be parsed next to a row with a number
C17_Witness ==
    /\ LatestComputed
    /\ pc = "done"
    /\ table_shown
    /\ total_value.num > 0
    /\ \E i \in RowsOfMonth(Latest(MonthsOf(1..Len(asset_df)))) :
          asset_df[i].Value = NaN
    /\ Len(portfolio_timeline) >= 2

\* the key of the bucket the rows without a key are said to go to
UnknownKey == "unknown"

\* the rows of the spending frame the filters of this run let through
SpendingFiltered == filter_category(spending_df, selected_category)

\* the spending page of this run has shown its analysis by category
AnalysisShown ==
    /\ current_page = "Spending Tracker"
    /\ pc \in {"insights", "done", "failed"}
    /\ selected_category # ""
    /\ SpendingFiltered # << >>

\* ... and its insights
InsightsShown == AnalysisShown /\ pc \in {"done", "failed"}

\* the sum of the (whole) amounts of the given rows whose category is k
RECURSIVE AmountFrom(_, _, _)
AmountFrom(rows, k, i) ==
    IF i > Len(rows) THEN 0
    ELSE (IF rows[i].Category = k /\ rows[i].Amount.kind = "num"
          THEN rows[i].Amount.num ELSE 0)
         + AmountFrom(rows, k, i + 1)

\* the categories of the filtered rows and the sum of each
Buckets ==
    { SpendingFiltered[i].Category : i \in 1..Len(SpendingFiltered) } \ {NullKey}

BucketSum(k) == AmountFrom(SpendingFiltered, k, 1)

\* C15: rows without a grouping key go to a bucket "unknown", so that the
\* sums by account (asset page, latest month) and by category (spending
\* page) add up to the sum of all amounts that are numbers.
C15_AsStated ==
    /\ LatestComputed =>
          LET latest == RowsOfMonth(Latest(MonthsOf(1..Len(asset_df))))
          IN  /\ FSum(Column(account_allocation, "Value")) = Float(Total(latest))
              /\ (\E i \in latest : asset_df[i].Account = NullKey)
                    => \E j \in 1..Len(account_allocation) :
                           account_allocation[j].key = UnknownKey
    /\ AnalysisShown =>
          /\ FSum(Column(category_spending, "Value")) = total_spending
          /\ (\E i \in 1..Len(SpendingFiltered) : SpendingFiltered[i].Category = NullKey)
                => \E j \in 1..Len(category_spending) :
                       category_spending[j].key = UnknownKey

\* the place of a key in ascending key order
KeyRank(k) == CHOOSE i \in 1..Len(KeysAscending) : KeysAscending[i] = k

\* bucket k1 comes before bucket k2: the larger sum first, equal sums by key
\* ascending
ComesBefore(k1, k2) ==
    \/ BucketSum(k1) > BucketSum(k2)
    \/ BucketSum(k1) = BucketSum(k2) /\ KeyRank(k1) < KeyRank(k2)

\* C16: the top categories are min(3, number of buckets) buckets with their
\* sums, in descending order of sum with ties by key ascending, and every
\* bucket left out comes after every bucket returned; the selection asked
\* for two of {A:50, B:50, C:10} gives [(A,50), (B,50)].
C16_TopCategories ==
    /\ InsightsShown =>
          LET top == top_categories
              keys == { top[i].key : i \in 1..Len(top) }
          IN  /\ Len(top) = (IF Cardinality(Buckets) < 3 THEN Cardinality(Buckets) ELSE 3)
              /\ \A i \in 1..Len(top) :
                    /\ top[i].key \in Buckets
                    /\ top[i].Value = Float(BucketSum(top[i].key))
              /\ \A i, j \in 1..Len(top) : i < j => ComesBefore(top[i].key, top[j].key)
              /\ \A k \in Buckets \ keys :
                    \A i \in 1..Len(top) : ComesBefore(top[i].key, k)
    /\ nlargest(<< [key |-> "A", Value |-> Float(50)], [key |-> "B", Value |-> Float(50)],
                   [key |-> "C", Value |-> Float(10)] >>, 2)
          = << [key |-> "A", Value |-> Float(50)], [key |-> "B", Value |-> Float(50)] >>

\* four buckets A:50, B:50, C:10, D:10 on a frame that starts with the row
\* of D: A and B tie, and C is returned while D with the same sum is not
C16_Witness ==
    /\ InsightsShown
    /\ Column(top_categories, "key") = << "A", "B", "C" >>
    /\ Buckets = {"A", "B", "C", "D"}
    /\ BucketSum("A") = BucketSum("B")
    /\ BucketSum("C") = BucketSum("D")
    /\ spending_df[1].Category = "D"

\* C18: once a frame is loaded, no step of the page changes it: not the
\* cells of a column and not its dtype.
C18_AsStated ==
    [][ (pc # "idle" /\ pc' # "idle") =>
            /\ df' = df
            /\ opening_dtype' = opening_dtype
            /\ asset_df' = asset_df
            /\ yearmonth_dtype' = yearmonth_dtype
            /\ spending_df' = spending_df ]_vars

\* the frame with the records at the places i and j exchanged
Swap(rows, i, j) ==
    [k \in 1..Len(rows) |->
        IF k = i THEN rows[j] ELSE IF k = j THEN rows[i] ELSE rows[k]]

\* C19: every metric the credit-card page has shown is the one the page
\* would show with any two records of the frame exchanged: the number of
\* open cards, the 5/24 count, the count of every candidate month of the
\* projection, and the average months open.
C19_AsStated ==
    (current_page = "Credit Card History" /\ pc = "done" /\ df # << >>) =>
        \A i, j \in 1..Len(df) :
            LET other == Swap(df, i, j)
            IN  /\ open_cards_count = Len(open_cards_of(other))
                /\ metric_524_counts = (IF has_columns
                                        THEN MetricValue(five_twenty_four_count(other))
                                        ELSE MetricNA)
                /\ has_columns =>
                      \A k \in 1..HorizonMonths :
                          count_cards(other, DateOffset(current_date, k))
                              = count_cards(df, DateOffset(current_date, k))
                /\ avg_months_open = (IF Len(open_cards_of(other)) > 0
                                      THEN average_months_open(open_cards_of(other),
                                                               current_date_col4)
                                      ELSE MetricNA)

(***************************************************************************)
(* Records dated in or before the start month                              *)
(***************************************************************************)
\* every dated row lies in or before the start month
AllOpenedByStart ==
    \A i \in DatedRows : MonthNumber(df[i].opening) <= MonthNumber(current_date)

\* the dated rows that lie after the start month
OpenedAfterStart ==
    { i \in DatedRows : MonthNumber(df[i].opening) > MonthNumber(current_date) }

\* C30: when every dated row lies in or before the start month, the counts
\* of the candidates 1 .. 24 never increase from one candidate to the next
\* and the count of candidate 24 is 0; the counts the loop computes are
\* these, so the search ends with a month, never with "Beyond 24 months",
\* and every candidate from the returned one on has a count below 5.  A
\* search that ends without a month has at least 5 rows dated after the
\* start month.
C30_PastRecordsDropOut ==
    (current_page = "Credit Card History" /\ current_date # None) =>
        /\ AllOpenedByStart =>
              /\ \A k \in 1..23 : WindowCount(k + 1) <= WindowCount(k)
              /\ WindowCount(24) = 0
              /\ Evaluated => cards_in_24_months = WindowCount(months_ahead)
              /\ ScanOver =>
                    /\ target_month # None
                    /\ \A k \in months_ahead..24 : WindowCount(k) < 5
                    /\ pc \in {"col4", "done"} =>
                          metric_524_by = strftime_Ym(target_month)
        /\ (ScanOver /\ target_month = None) => Cardinality(OpenedAfterStart) >= 5

\* five rows of the start month and an older row: the count stays at 5 or
\* above up to candidate 23 and the search returns candidate 24
C30_Witness ==
    /\ current_page = "Credit Card History"
    /\ pc = "done"
    /\ current_date # None
    /\ AllOpenedByStart
    /\ Cardinality(DatedRows) = 6
    /\ Cardinality({ df[i].opening : i \in DatedRows }) = 2
    /\ months_ahead = 24
    /\ target_month # None
    /\ metric_524_by = strftime_Ym(target_month)

(***************************************************************************)
(* Properties of the login gate                                            *)
(***************************************************************************)

\* the run is one of the gated application
SecureRun == script = "spending_tracker_secure.py"

\* the run has handled a press of the Login button
Submitted == SecureRun /\ pc = "done" /\ submit_button

\* C24: login_attempts always lies in 0..3; it grows only by one, in the
\* handling of a failed submission of a form that is shown, and only from
\* a value below 3, so a fourth failure in a row is never recorded
C24_AttemptsBounded ==
    /\ [](login_attempts \in 0..3)
    /\ [][login_attempts' > login_attempts =>
              /\ pc = "submit"
              /\ submit_button
              /\ form_shown
              /\ login_attempts < 3
              /\ login_attempts' = login_attempts + 1
              /\ ~authenticated']_vars

C24_Witness ==
    /\ Submitted
    /\ login_attempts = 3
    /\ form_shown
    /\ ~authenticated

\* the run is at the start of login_page with the session locked
Locked == SecureRun /\ pc = "login_page" /\ login_attempts >= 3

\* C21: once login_attempts has reached 3, a render that reads a time less
\* than 300 seconds after last_attempt ends without the form, without a
\* credential check and without a change of the session; last_attempt is
\* the time of the failing submission that brought the counter to 3, and
\* stays it while the session is locked
C21_LockedRender ==
    /\ [](login_attempts >= 3 =>
              /\ ~authenticated
              /\ pc \notin {"form", "submit", "main_app"})
    /\ [][(/\ (Locked /\ current_time' - last_attempt < 300) =>
                 /\ pc' = "done"
                 /\ ~form_shown'
                 /\ ~submit_button'
                 /\ UNCHANGED << authenticated, login_attempts,
                                 last_attempt, session_username >>
           /\ (login_attempts < 3 /\ login_attempts' >= 3) =>
                 /\ pc = "submit"
                 /\ current_time = clock
                 /\ last_attempt' = current_time
           /\ (login_attempts >= 3 /\ login_attempts' >= 3) =>
                 UNCHANGED last_attempt)]_vars

C21_Witness ==
    /\ SecureRun
    /\ pc = "done"
    /\ ~submit_button
    /\ login_attempts = 3
    /\ last_attempt = 1300
    /\ current_time = 1599
    /\ ~form_shown
    /\ ~authenticated

\* both variables of the pair with index i hold a text that is not empty
PairConfigured(e, i) ==
    /\ getenv_username(e, i).set /\ getenv_username(e, i).text # ""
    /\ getenv_password(e, i).set /\ getenv_password(e, i).text # ""

\* both variables of the pair with index i are set
PairSet(e, i) == getenv_username(e, i).set /\ getenv_password(e, i).set

\* u and p are the texts of the pair with index i
IsPair(e, i, u, p) ==
    u = getenv_username(e, i).text /\ p = getenv_password(e, i).text

\* the pair is the primary pair or one of the additional pairs 2, 3, ...
\* before the first index where a variable is missing or empty, and the
\* primary pair is configured
Accepts(e, u, p) ==
    /\ PairConfigured(e, 1)
    /\ \/ IsPair(e, 1, u, p)
       \/ \E i \in 2..Len(e.username) :
              /\ \A j \in 2..i : PairConfigured(e, j)
              /\ IsPair(e, i, u, p)

\* the same, reading "missing" as "not set" only
AcceptsWhenSet(e, u, p) ==
    /\ PairSet(e, 1)
    /\ \/ IsPair(e, 1, u, p)
       \/ \E i \in 2..Len(e.username) :
              /\ \A j \in 2..i : PairSet(e, j)
              /\ IsPair(e, i, u, p)

\* C22: main_app runs, and a page of it is shown, only in an authenticated
\* session; authenticated turns True only in the handling of a form
\* submission whose credentials are accepted
C22_GateBeforeMainApp ==
    /\ []((pc = "main_app" \/ (SecureRun /\ current_page # "none"))
              => authenticated)
    /\ [][(~authenticated /\ authenticated') =>
              /\ pc = "submit"
              /\ submit_button
              /\ Accepts(env, username, password)]_vars

C22_Witness ==
    /\ SecureRun
    /\ pc = "done"
    /\ current_page = "Credit Card History"
    /\ table_shown
    /\ authenticated
    /\ session_username = << "bob" >>

\* C23 as stated: in every entry point the credit-card data is loaded and
\* shown only in an authenticated session
C23_AsStated == (df # << >> \/ table_shown) => authenticated

\* C25: a render of a locked session that reads a time 300 seconds or more
\* after last_attempt sets the counter to 0 and goes on to draw the form;
\* the counter falls in no other step but the handling of an accepted
\* submission, so two failures, an idle period and a third failure lock
C25_LockoutExpires ==
    [][(/\ (Locked /\ current_time' - last_attempt >= 300) =>
              /\ login_attempts' = 0
              /\ pc' = "form"
        /\ pc = "form" => form_shown'
        /\ login_attempts' < login_attempts =>
              /\ login_attempts' = 0
              /\ \/ Locked /\ current_time' - last_attempt >= 300
                 \/ pc = "submit" /\ ~authenticated /\ authenticated'
        /\ (pc = "submit" /\ login_attempts = 2 /\ ~authenticated') =>
              login_attempts' = 3)]_vars

C25_Witness ==
    /\ SecureRun
    /\ pc = "done"
    /\ ~submit_button
    /\ form_shown
    /\ login_attempts = 0
    /\ last_attempt = 1300
    /\ current_time = 1600
    /\ session_username = NoUsername

\* C26: the handling of a form submission sets last_attempt to the time
\* the run has read and then does exactly one of two things: for accepted
\* credentials it sets authenticated, stores the username and sets the
\* counter to 0; otherwise it adds one to the counter and leaves
\* authenticated False
C26_SubmissionOutcomes ==
    [][pc = "submit" =>
          /\ last_attempt' = current_time
          /\ current_time = clock
          /\ ~authenticated
          /\ IF Accepts(env, username, password)
                THEN /\ authenticated'
                     /\ session_username' = << username >>
                     /\ login_attempts' = 0
                ELSE /\ ~authenticated'
                     /\ login_attempts' = login_attempts + 1
                     /\ UNCHANGED session_username]_vars

C26_Witness ==
    /\ Submitted
    /\ authenticated
    /\ session_username = << "alice" >>
    /\ login_attempts = 0
    /\ last_attempt = 1300
    /\ current_time = 1300

\* C27 as stated: a submission is accepted exactly when ST_USERNAME and
\* ST_PASSWORD are set and the pair is the primary pair or one of the
\* additional pairs before the first index where a variable is not set
C27_AsStated ==
    Submitted => (authenticated <=> AcceptsWhenSet(env, username, password))

\* C27: a submission is accepted exactly when ST_USERNAME and ST_PASSWORD
\* are set and not empty and the pair is the primary pair or one of the
\* additional pairs before the first index where a variable is not set or
\* is empty; with the primary pair missing every pair is rejected, a pair
\* of ST_USERNAME_2 and ST_PASSWORD_2 included
C27_MissingOrEmpty ==
    Submitted => (authenticated <=> Accepts(env, username, password))

C27_Witness ==
    /\ Submitted
    /\ ~PairSet(env, 1)
    /\ IsPair(env, 2, username, password)
    /\ username = "bob"
    /\ ~authenticated

(***************************************************************************)
(* Properties of the loaders                                               *)
(***************************************************************************)

\* load_data_with_fallback has returned or raised
FallbackOver == loader = "load_data_with_fallback" /\ pc = "returned"

\* the function that downloads for the running loader has returned:
\* load_excel_from_drive for load_data_with_fallback, the loader itself
\* otherwise
DownloaderOver ==
    \/ pc = "returned"
    \/ loader = "load_data_with_fallback" /\ pc \in {"fallback", "to_datetime"}

\* C28 as stated: load_data_with_fallback reads the local file if and only
\* if the Drive load gave an empty frame, returns a non-empty Drive frame
\* without reading the local file, and returns an empty frame, raising
\* nothing, when neither source gave rows
C28_AsStated ==
    FallbackOver =>
        /\ local_df # "none" <=> drive_df = "empty"
        /\ drive_df = "rows" => (local_df = "none" /\ result = "rows")
        /\ (drive_df # "rows" /\ local_df # "rows") => result = "empty"

\* C29 as stated: when the download step has succeeded, the temporary file
\* of the loader no longer exists once the loader has returned
C29_AsStated ==
    (DownloaderOver /\ download_ok) => temp_filename(loader) \notin temp_files
====
